---- MODULE Spec2Model ----
(***************************************************************************)
(* Model of DreamPiInstaller (src/pi_installer.py): the install and the    *)
(* uninstall workflows, the busy flag that guards them, the step status    *)
(* labels and the embedded teardown script.                                *)
(*                                                                         *)
(* The foreground (Tk event loop) runs start_installation and              *)
(* start_uninstall; each accepted call starts one new thread, a "run".     *)
(* A run's statements that read or write shared state are separate         *)
(* actions, so other threads and the foreground interleave between them.   *)
(* External calls (socket connect, urlopen, ssh, the shortcut              *)
(* collaborators) return a nondeterministic outcome.                       *)
(*                                                                         *)
(* Spec is the program with the configuration as it was at start-up.       *)
(* SpecTeardown is the uninstall workflow against every state of the       *)
(* target, SpecConfig one run while the user edits the configuration,      *)
(* SpecLog the install workflow with the text of the log, and SpecLive the *)
(* program with its threads scheduled fairly.  The variable "recorded"     *)
(* says which of the histories that only some properties read (the text    *)
(* of the log, the calls the foreground handled, the results of            *)
(* execute_ssh_command and their command lines, the downloaded payload) a  *)
(* behaviour keeps.  SpecRun is one run with all of them kept, and         *)
(* SpecProbe the connectivity test beside one install run.                 *)
(***************************************************************************)
EXTENDS Integers, Sequences, FiniteSets, TLC

\* Number of threads the foreground starts in one behaviour.
MaxRuns == 2

Runs == 1..MaxRuns

\* Number of edits of the configuration fields the user makes in one behaviour.
MaxEdits == 1

\* Number of connectivity tests the user starts in one behaviour.
MaxTests == 1

Tests == 1..MaxTests

\* src/pi_installer.py:44
PORTAL_PORT == 1999
\* src/pi_installer.py:43
DEFAULT_PORT == 22
\* The timeouts handed to execute_ssh_command and urlopen.
INSTALL_TIMEOUT == 300
STATUS_TIMEOUT == 30
UNINSTALL_TIMEOUT == 120
DOWNLOAD_TIMEOUT == 30

\* len(self.step_labels); steps are indexed from 0 as in the source.
NumSteps == 5
Steps == 0..(NumSteps - 1)
StepConnect == 0
StepDownload == 1
StepInstall == 2
StepVerify == 3
StepShortcuts == 4

\* The text update_step_status is given while step i is executing.
RunningText(i) ==
    CASE i = 0 -> "Connecting..."
      [] i = 1 -> "Downloading..."
      [] i = 2 -> "Installing..."
      [] i = 3 -> "Verifying..."
      [] OTHER -> "Creating..."

RunningTexts == {RunningText(i) : i \in Steps}
Terminal == {"Complete", "Failed"}

\* Text fields are sequences of characters, so that strip() is computed.
Hostnames == {<< >>, <<" ">>, <<"p", "i">>}
Usernames == {<< >>, <<"p", "i">>}

\* src/pi_installer.py:42
DEFAULT_PASSWORD == <<"r", "a", "s", "p">>
Passwords == {DEFAULT_PASSWORD, <<"s", "3", "c">>}

\* The values the user types into the fields while the program runs.
EditedHostnames == {<< >>, <<"p", "i">>, <<"q">>}
Ports == {DEFAULT_PORT, 2222}

Whitespace == {" "}

RECURSIVE LStrip(_)
LStrip(s) == IF s # << >> /\ Head(s) \in Whitespace THEN LStrip(Tail(s)) ELSE s

RECURSIVE RStrip(_)
RStrip(s) ==
    IF s # << >> /\ s[Len(s)] \in Whitespace THEN RStrip(SubSeq(s, 1, Len(s) - 1)) ELSE s

\* str.strip()
Strip(s) == RStrip(LStrip(s))

\* full_log[-10:], the part of the log the failure report shows
LogTail == 10

LastN(s, n) == IF Len(s) <= n THEN s ELSE SubSeq(s, Len(s) - n + 1, Len(s))

\* One entry of the log: the thread that wrote it (0: the constructor), the
\* text of the message and the values formatted into it.
Line(by, text, arg) == [by |-> by, text |-> text, arg |-> arg]

\* The entries the constructor logs (lines 297-313); only the last LogTail are kept.
WelcomeLog == [i \in 1..LogTail |-> Line(0, "welcome", << >>)]

\* ---------------------------------------------------------------- remote target
\* The target as the teardown script sees it.
RemoteStates == [active : BOOLEAN, enabled : BOOLEAN, unit : BOOLEAN, dir : BOOLEAN]
TornDown == [active |-> FALSE, enabled |-> FALSE, unit |-> FALSE, dir |-> FALSE]
Installed == [active |-> TRUE, enabled |-> TRUE, unit |-> TRUE, dir |-> TRUE]

\* The sudo commands of the teardown script, in script order.
SudoCmds == {"is-active", "stop", "is-enabled", "disable", "rm-unit", "daemon-reload", "rm-dir"}

StopService(s, ok) ==
    IF s.active /\ "is-active" \in ok
    THEN IF "stop" \in ok THEN [code |-> 0, st |-> [s EXCEPT !.active = FALSE]]
                           ELSE [code |-> 1, st |-> s]
    ELSE [code |-> 0, st |-> s]

DisableAutostart(s, ok) ==
    IF s.enabled /\ "is-enabled" \in ok
    THEN IF "disable" \in ok THEN [code |-> 0, st |-> [s EXCEPT !.enabled = FALSE]]
                              ELSE [code |-> 1, st |-> s]
    ELSE [code |-> 0, st |-> s]

\* Variant of RemoveUnitFile: rm with no test that the file is there.
RemoveUnitFile_NoTest(s, ok) ==
    IF s.unit /\ "rm-unit" \in ok
    THEN [code |-> 0, st |-> [s EXCEPT !.unit = FALSE]]
    ELSE [code |-> 1, st |-> s]

RemoveUnitFile(s, ok) ==
    IF s.unit
    THEN IF "rm-unit" \in ok THEN [code |-> 0, st |-> [s EXCEPT !.unit = FALSE]]
                              ELSE [code |-> 1, st |-> s]
    ELSE [code |-> 0, st |-> s]

DaemonReload(s, ok) ==
    IF "daemon-reload" \in ok THEN [code |-> 0, st |-> s] ELSE [code |-> 1, st |-> s]

RemoveInstallDir(s, ok) ==
    IF s.dir
    THEN IF "rm-dir" \in ok THEN [code |-> 0, st |-> [s EXCEPT !.dir = FALSE]]
                             ELSE [code |-> 1, st |-> s]
    ELSE [code |-> 0, st |-> s]

\* The embedded uninstall script run on target state s, where ok is the set of
\* sudo commands that succeed: its exit code and the state it leaves.
uninstall_script(s, ok) ==
    \* set -e: once a command has failed the script has exited with its code.
    LET r1 == StopService(s, ok)
        r2 == IF r1.code # 0 THEN r1 ELSE DisableAutostart(r1.st, ok)
        r3 == IF r2.code # 0 THEN r2 ELSE RemoveUnitFile(r2.st, ok)
        r4 == IF r3.code # 0 THEN r3 ELSE DaemonReload(r3.st, ok)
        r5 == IF r4.code # 0 THEN r4 ELSE RemoveInstallDir(r4.st, ok)
    IN  r5

\* ---------------------------------------------------------------- state
VARIABLES
    is_installing,            \* self.is_installing
    install_button,           \* state of self.install_button
    uninstall_button,         \* state of self.uninstall_button
    step_labels,              \* text of self.step_labels[0..4]
    progress,                 \* self.progress_bar['value']
    hostname_var,             \* self.hostname_var
    username_var,             \* self.username_var
    create_desktop_shortcut,  \* self.create_desktop_shortcut
    create_start_menu,        \* self.create_start_menu
    port_var,                 \* self.port_var
    full_log,                 \* the last LogTail entries of self.full_log
    nEdits,                   \* edits of the configuration fields made so far
    recorded,                 \* which of "log", "calls", "ssh", "payload", "argv" a behaviour keeps
    remote,                   \* the target device
    fg,                       \* foreground: "idle", or "confirm" inside start_uninstall's askyesno
    nRuns,                    \* threads started so far
    kind,                     \* kind[r]: "none", "install" or "uninstall"
    pc,                       \* pc[r]: where thread r is
    shortcuts_created,        \* the local of create_windows_shortcuts in thread r
    error_msg,                \* the message of the exception thread r raised
    ret,                      \* history: the values the step functions returned to thread r
    ops,                      \* history: the external operations thread r performed
    reports,                  \* history: the final reports thread r produced
    td,                       \* history: the run of the teardown script thread r made
    hostname,                 \* the local "hostname" of the call that started thread r
    portal_url,               \* the local of create_windows_shortcuts in thread r
    targets,                  \* history: the host and port each operation of thread r used
    ssh_results,              \* history: what execute_ssh_command did and returned in thread r
    launched,                 \* history: the commands and command lines of these calls
    report_text,              \* history: the content of the final report of thread r
    last_call,                \* history: the last call the foreground handled
    password_var,             \* self.password_var
    install_script_content,   \* self.install_script_content
    uninstall_output_text,    \* the entries of self.uninstall_output_text
    connection_status_label,  \* text of self.connection_status_label
    nTests,                   \* test() threads started so far
    test_pc,                  \* test_pc[t]: where test thread t is
    test_local,               \* the locals "hostname" and "port" of test thread t
    test_ops,                 \* history: the probes test thread t made
    test_notice               \* history: the dialog test thread t showed

vars == <<is_installing, install_button, uninstall_button, step_labels, progress,
          hostname_var, username_var, create_desktop_shortcut, create_start_menu,
          remote, fg, nRuns, kind, pc, shortcuts_created, error_msg, ret, ops,
          reports, td, port_var, full_log, nEdits, recorded, hostname, portal_url, targets,
          ssh_results, launched, report_text, last_call, password_var, install_script_content,
          uninstall_output_text, connection_status_label, nTests, test_pc, test_local,
          test_ops, test_notice>>

gui == <<install_button, uninstall_button, step_labels, progress>>
config == <<hostname_var, username_var, port_var, create_desktop_shortcut,
            create_start_menu, nEdits, recorded, password_var>>
\* What the workflows store and show apart from the install log.
outputs == <<install_script_content, uninstall_output_text>>
\* The connectivity test of the configuration tab.
tester == <<connection_status_label, nTests, test_pc, test_local, test_ops, test_notice>>
threads == <<nRuns, kind>>
\* The locals of a thread and the history kept of it that the steps of the
\* workflows write.
trace == <<portal_url, targets, ssh_results, launched, report_text>>

NoTeardown == [ran |-> FALSE, allok |-> FALSE, pre |-> TornDown, code |-> 0, post |-> TornDown]

NoReport == [kind |-> "none", url |-> << >>, msg |-> "none", recent_logs |-> << >>]

\* A call the foreground handled: the handler, how it ended, the dialog it showed.
Call(fn, outcome, notice) == [fn |-> fn, outcome |-> outcome, notice |-> notice]
NoCall == Call("none", "none", "none")

NoTarget == [hostname |-> << >>, port |-> 0]

\* The state after __init__, with the fields and checkboxes as the user left them.
InitFields ==
    /\ is_installing = FALSE
    /\ install_button = "normal"
    /\ uninstall_button = "normal"
    /\ step_labels = [i \in Steps |-> "Pending"]
    /\ progress = 0
    /\ hostname_var \in Hostnames
    /\ username_var \in Usernames
    /\ create_desktop_shortcut \in BOOLEAN
    /\ create_start_menu \in BOOLEAN
    /\ fg = "idle"
    /\ shortcuts_created = [r \in Runs |-> 0]
    /\ error_msg = [r \in Runs |-> "none"]
    /\ ret = [r \in Runs |-> << >>]
    /\ ops = [r \in Runs |-> << >>]
    /\ reports = [r \in Runs |-> << >>]
    /\ td = [r \in Runs |-> NoTeardown]
    /\ port_var = DEFAULT_PORT
    /\ nEdits = 0
    /\ full_log = WelcomeLog
    /\ hostname = [r \in Runs |-> << >>]
    /\ portal_url = [r \in Runs |-> << >>]
    /\ targets = [r \in Runs |-> << >>]
    /\ ssh_results = [r \in Runs |-> << >>]
    /\ launched = [r \in Runs |-> << >>]
    /\ report_text = [r \in Runs |-> NoReport]
    /\ last_call = NoCall
    /\ install_script_content = << >>
    /\ uninstall_output_text = << >>
    /\ connection_status_label = <<"Not tested">>
    /\ nTests = 0
    /\ test_pc = [t \in Tests |-> "idle"]
    /\ test_local = [t \in Tests |-> NoTarget]
    /\ test_ops = [t \in Tests |-> << >>]
    /\ test_notice = [t \in Tests |-> "none"]

\* No thread has been started yet.
InitLocal ==
    /\ InitFields
    /\ nRuns = 0
    /\ kind = [r \in Runs |-> "none"]
    /\ pc = [r \in Runs |-> "idle"]

\* A session in which uninstall runs have been made and have finished, and one
\* more thread can be started.
InitLastRun ==
    /\ InitFields
    /\ nRuns = MaxRuns - 1
    /\ kind = [r \in Runs |-> IF r < MaxRuns THEN "uninstall" ELSE "none"]
    /\ pc = [r \in Runs |-> IF r < MaxRuns THEN "done" ELSE "idle"]

\* The password field as __init__ fills it.
InitPassword == password_var = DEFAULT_PASSWORD

Init == InitLocal /\ InitPassword /\ remote \in {TornDown, Installed} /\ recorded = {}

\* ---------------------------------------------------------------- the foreground
\* threading.Thread(target=..., daemon=True).start(): a new thread that has not
\* yet executed its first statement.
Spawn(k) ==
    /\ nRuns < MaxRuns
    /\ nRuns' = nRuns + 1
    /\ kind' = [kind EXCEPT ![nRuns + 1] = k]
    /\ pc' = [pc EXCEPT ![nRuns + 1] = "spawned"]
    /\ hostname' = [hostname EXCEPT ![nRuns + 1] = Strip(hostname_var)]

\* The foreground has handled the call c.
Handled(c) == last_call' = IF "calls" \in recorded THEN c ELSE last_call

\* Variant of SettingsMissing: only the hostname is looked at.
SettingsMissing_HostOnly == Strip(hostname_var) = << >>

\* "not hostname or not username" of the trimmed fields
SettingsMissing == Strip(hostname_var) = << >> \/ Strip(username_var) = << >>

\* The busy check of start_installation
InstallBusy == is_installing

start_installation ==
    /\ fg = "idle"
    /\ install_button = "normal"
    /\ IF InstallBusy
       THEN /\ Handled(Call("start_installation", "busy", "none"))
            /\ UNCHANGED <<threads, pc, hostname>>
       ELSE IF SettingsMissing
       THEN /\ Handled(Call("start_installation", "missing", "Configuration Required"))
            /\ UNCHANGED <<threads, pc, hostname>>
       ELSE /\ Handled(Call("start_installation", "spawned", "none"))
            /\ Spawn("install")
    /\ UNCHANGED <<is_installing, gui, config, outputs, tester, remote, fg, shortcuts_created,
                   error_msg, ret, ops, reports, td, full_log, trace>>

\* The busy check of start_uninstall
UninstallBusy == is_installing

\* start_uninstall up to the askyesno dialog
start_uninstall ==
    /\ fg = "idle"
    /\ uninstall_button = "normal"
    /\ IF UninstallBusy
       THEN /\ Handled(Call("start_uninstall", "busy", "Installation in Progress"))
            /\ fg' = fg
       ELSE IF SettingsMissing
       THEN /\ Handled(Call("start_uninstall", "missing", "Configuration Required"))
            /\ fg' = fg
       ELSE /\ nRuns < MaxRuns
            /\ Handled(Call("start_uninstall", "asked", "Confirm Uninstall"))
            /\ fg' = "confirm"
    /\ UNCHANGED <<is_installing, gui, config, outputs, tester, remote, threads, pc, shortcuts_created,
                   error_msg, ret, ops, reports, td, full_log, hostname, trace>>

\* Variant of confirmed: the answer is not looked at.
confirmed_Always(response) == TRUE

\* "if not response: return": the thread is started only on a yes.
confirmed(response) == response

\* start_uninstall from the answer to askyesno on
confirm_uninstall ==
    /\ fg = "confirm"
    /\ fg' = "idle"
    /\ \E response \in BOOLEAN :
          /\ Handled(Call("start_uninstall", IF response THEN "confirmed" ELSE "declined", "none"))
          /\ IF ~confirmed(response)
             THEN UNCHANGED <<threads, pc, hostname>>
             ELSE Spawn("uninstall")
    /\ UNCHANGED <<is_installing, gui, config, outputs, tester, remote, shortcuts_created,
                   error_msg, ret, ops, reports, td, full_log, trace>>

\* The user types into the fields of the configuration tab.
edit_hostname ==
    /\ fg = "idle"
    /\ nEdits < MaxEdits
    /\ nEdits' = nEdits + 1
    /\ \E h \in EditedHostnames : h # hostname_var /\ hostname_var' = h
    /\ UNCHANGED <<is_installing, gui, username_var, port_var, create_desktop_shortcut,
                   create_start_menu, recorded, password_var, outputs, tester, remote, fg, threads, pc,
                   shortcuts_created, error_msg, ret, ops, reports, td, full_log,
                   hostname, trace, last_call>>

edit_username ==
    /\ fg = "idle"
    /\ nEdits < MaxEdits
    /\ nEdits' = nEdits + 1
    /\ \E u \in Usernames : u # username_var /\ username_var' = u
    /\ UNCHANGED <<is_installing, gui, hostname_var, port_var, create_desktop_shortcut,
                   create_start_menu, recorded, password_var, outputs, tester, remote, fg, threads, pc,
                   shortcuts_created, error_msg, ret, ops, reports, td, full_log,
                   hostname, trace, last_call>>

edit_port ==
    /\ fg = "idle"
    /\ nEdits < MaxEdits
    /\ nEdits' = nEdits + 1
    /\ \E p \in Ports : p # port_var /\ port_var' = p
    /\ UNCHANGED <<is_installing, gui, hostname_var, username_var,
                   create_desktop_shortcut, create_start_menu, recorded, password_var, outputs, tester, remote, fg,
                   threads, pc, shortcuts_created, error_msg, ret, ops, reports, td,
                   full_log, hostname, trace, last_call>>

\* ---------------------------------------------------------------- helpers of the threads
At(r, k, l) == kind[r] = k /\ pc[r] = l
Goto(r, l) == pc' = [pc EXCEPT ![r] = l]

Op(op, arg, out, code) == [op |-> op, arg |-> arg, out |-> out, code |-> code]
Did(r, o) == ops' = [ops EXCEPT ![r] = Append(@, o)]

\* self.log: the entries are appended to self.full_log.
log(lines) ==
    full_log' = IF "log" \in recorded THEN LastN(full_log \o lines, LogTail) ELSE full_log

\* The host and port an operation of thread r was aimed at.
Used(r, use, host, port) ==
    targets' = [targets EXCEPT ![r] = Append(@, [use |-> use, host |-> host, port |-> port])]

completed_steps(labels) == Cardinality({i \in Steps : labels[i] = "Complete"})

set_label(labels, step, status) ==
    IF step < NumSteps THEN [labels EXCEPT ![step] = status] ELSE labels

update_step_status(step, status) ==
    /\ step_labels' = set_label(step_labels, step, status)
    /\ progress' = completed_steps(step_labels')

\* Variant of Returned: a step function that returned False is called again, up
\* to three times.
Returned_Retry(r, v, next, msg) ==
    /\ ret' = [ret EXCEPT ![r] = Append(@, v)]
    /\ pc' = [pc EXCEPT ![r] = IF v THEN next ELSE IF Len(ops[r]) < 3 THEN @ ELSE "failed"]
    /\ error_msg' = [error_msg EXCEPT ![r] = IF v THEN @ ELSE msg]

\* A step function returned v to install() or uninstall(): "if not ...: raise Exception(msg)".
Returned(r, v, next, msg) ==
    /\ ret' = [ret EXCEPT ![r] = Append(@, v)]
    /\ pc' = [pc EXCEPT ![r] = IF v THEN next ELSE "failed"]
    /\ error_msg' = [error_msg EXCEPT ![r] = IF v THEN @ ELSE msg]

\* What a socket probe can do: connect_ex returns 0, returns an errno (refused,
\* timed out), or raises socket.gaierror (the name does not resolve).
ProbeOutcomes == {"ok", "refused", "timeout", "gaierror"}

\* What urlopen(...).read() can do.
FetchOutcomes == {"content", "empty", "error"}

\* What a shortcut collaborator can do.
ShortcutOutcomes == {"true", "false", "raise"}

\* What can happen in execute_ssh_command: the ssh process exits with a code, the
\* timeout expires, Popen fails, or reading the port field fails before the try.
SshEvents == {"exit", "timeout", "popen_error", "bad_port"}
ExitCodes == {0, 1, 255}

\* What the ssh process writes, split at the newlines: the scripts echo empty
\* lines between their sections, and ssh itself writes a warning about the host
\* key (UserKnownHostsFile=/dev/null) on stderr whatever the exit code is.
RemoteStdout == <<"output", "", "done">>
RemoteStderr(rc) ==
    <<"Warning: Permanently added">> \o (IF rc = 0 THEN << >> ELSE <<"error output", " ">>)

\* The (return_code, ...) execute_ssh_command returns, or the exception it lets escape.
\* Variant of execute_ssh_command: TimeoutExpired is not caught apart, the process
\* is left running and the text of the exception is returned.
execute_ssh_command_NoKill(ev, rc) ==
    CASE ev = "exit"        -> [raised |-> FALSE, code |-> rc, killed |-> FALSE,
                                stdout |-> RemoteStdout,
                                stderr |-> RemoteStderr(rc)]
      [] ev \in {"timeout", "popen_error"}
                            -> [raised |-> FALSE, code |-> -1, killed |-> FALSE,
                                stdout |-> << >>,
                                stderr |-> <<"str(e)">>]
      [] OTHER              -> [raised |-> TRUE, code |-> -1, killed |-> FALSE,
                                stdout |-> << >>, stderr |-> << >>]

\* killed: process.kill() was called; stdout, stderr: the lines returned.
execute_ssh_command(ev, rc) ==
    CASE ev = "exit"        -> [raised |-> FALSE, code |-> rc, killed |-> FALSE,
                                stdout |-> RemoteStdout,
                                stderr |-> RemoteStderr(rc)]
      [] ev = "timeout"     -> [raised |-> FALSE, code |-> -1, killed |-> TRUE,
                                stdout |-> <<"output">>,
                                stderr |-> <<"SSH command timed out">>]
      [] ev = "popen_error" -> [raised |-> FALSE, code |-> -1, killed |-> FALSE,
                                stdout |-> << >>,
                                stderr |-> <<"str(e)">>]
      [] OTHER              -> [raised |-> TRUE, code |-> -1, killed |-> FALSE,
                                stdout |-> << >>, stderr |-> << >>]

Min(a, b) == IF a < b THEN a ELSE b

\* A command line is a sequence of arguments, an argument a sequence of pieces
\* of text. lines 887-897
ssh_cmd(user, host, port, timeout, command) ==
    << <<"ssh">>,
       <<"-o">>, <<"StrictHostKeyChecking=no">>,
       <<"-o">>, <<"UserKnownHostsFile=/dev/null">>,
       <<"-o">>, <<"PreferredAuthentications=password">>,
       <<"-o">>, <<"PubkeyAuthentication=no">>,
       <<"-o">>, <<"ConnectTimeout=", ToString(Min(timeout, 30))>>,
       <<"-p">>, <<ToString(port)>>,
       user \o <<"@">> \o host,
       command >>

\* lines 903-910: what Popen is given, with sshpass on the PATH and without
full_cmd(sshpass, password, cmd) ==
    IF sshpass THEN << <<"sshpass">>, <<"-p">>, password >> \o cmd ELSE cmd

\* Variant of logged_command: the sshpass prefix is part of what is logged.
logged_command_WithPrefix(password, cmd) ==
    LET full == full_cmd(TRUE, password, cmd)
    IN  SubSeq(full, 1, Len(full) - 1) \o << <<"'[COMMAND]'">> >>

\* line 899: ' '.join(ssh_cmd[:-1]) followed by '[COMMAND]'
logged_command(password, cmd) ==
    SubSeq(cmd, 1, Len(cmd) - 1) \o << <<"'[COMMAND]'">> >>

\* The commands the workflows hand to execute_ssh_command.
\* Variant of install_script: the downloaded script is what is executed.
install_script_Downloaded(content) == content

\* lines 940-1015: the embedded template, whatever was downloaded
install_script(content) == <<"#!/bin/bash (install template)">>

\* line 1077
status_command == <<"systemctl --user is-active dreampi-linkcable || ...">>

\* lines 1422-1488
uninstall_command == <<"#!/bin/bash (uninstall template)">>

SshOp(timeout, res) ==
    Op("ssh", timeout, IF res.raised THEN "raised" ELSE "returned", res.code)

\* What an execute_ssh_command call of thread r leaves behind: the "SSH Command"
\* entry of the log (line 899), the target of the command and the result. A call
\* that raises has raised before it logged and before it started a process.
SshCall(r, timeout, ev, res) ==
    /\ IF res.raised
       THEN UNCHANGED targets
       ELSE Used(r, "ssh", Strip(hostname_var), port_var)
    /\ ssh_results' =
          IF "ssh" \in recorded
          THEN [ssh_results EXCEPT ![r] = Append(@, [timeout |-> timeout, ev |-> ev, res |-> res])]
          ELSE ssh_results

\* The command line of an execute_ssh_command call for command.
SshCmd(timeout, command) ==
    ssh_cmd(Strip(username_var), Strip(hostname_var), port_var, timeout, command)

SshLog(r, res, timeout, command) ==
    IF res.raised THEN << >>
    ELSE <<Line(r, "SSH Command:", logged_command(password_var, SshCmd(timeout, command)))>>

\* history: the command an execute_ssh_command call of thread r was given and
\* the command line it started a process with, if it came to that.
Launched(r, ev, res, sshpass, timeout, command) ==
    launched' =
       IF "argv" \in recorded
       THEN [launched EXCEPT ![r] = Append(@,
               [timeout |-> timeout, command |-> command,
                argv |-> IF res.raised \/ ev = "popen_error" THEN << >>
                         ELSE full_cmd(sshpass, password_var, SshCmd(timeout, command))])]
       ELSE launched

\* "if line.strip()": the line holds something other than whitespace.
NotBlank(line) == line \notin {"", " "}

\* "for line in ...split('\n'): if line.strip(): self.log(f'{prefix} {line}')"
Forwarded(r, prefix, lines) ==
    LET kept == SelectSeq(lines, NotBlank)
    IN  [i \in 1..Len(kept) |-> Line(r, prefix, <<kept[i]>>)]

\* Variant of OutputLog: stderr is forwarded only when the command failed.
OutputLog_OnFailure(r, res) ==
    Forwarded(r, "Pi:", res.stdout)
    \o (IF res.code = 0 THEN << >> ELSE Forwarded(r, "SSH Error:", res.stderr))

\* The entries install_pi_service logs for the output of the command: stdout,
\* then stderr.
OutputLog(r, res) ==
    Forwarded(r, "Pi:", res.stdout) \o Forwarded(r, "SSH Error:", res.stderr)

\* The thread ends: its locals, and the history kept of it, are gone.
ThreadEnds(r) ==
    /\ Goto(r, "done")
    /\ shortcuts_created' = [shortcuts_created EXCEPT ![r] = 0]
    /\ error_msg' = [error_msg EXCEPT ![r] = "none"]
    /\ ret' = [ret EXCEPT ![r] = << >>]
    /\ ops' = [ops EXCEPT ![r] = << >>]
    /\ reports' = [reports EXCEPT ![r] = << >>]
    /\ td' = [td EXCEPT ![r] = NoTeardown]
    /\ hostname' = [hostname EXCEPT ![r] = << >>]
    /\ portal_url' = [portal_url EXCEPT ![r] = << >>]
    /\ targets' = [targets EXCEPT ![r] = << >>]
    /\ ssh_results' = [ssh_results EXCEPT ![r] = << >>]
    /\ launched' = [launched EXCEPT ![r] = << >>]
    /\ report_text' = [report_text EXCEPT ![r] = NoReport]

\* ---------------------------------------------------------------- install()
\* line 701
install_set_flag(r) ==
    /\ At(r, "install", "spawned")
    /\ is_installing' = TRUE
    /\ Goto(r, "disable_button")
    /\ UNCHANGED <<gui, config, outputs, tester, remote, fg, threads, shortcuts_created, error_msg,
                   ret, ops, reports, td, full_log, hostname, trace, last_call>>

\* line 702
install_disable_button(r) ==
    /\ At(r, "install", "disable_button")
    /\ install_button' = "disabled"
    /\ Goto(r, "reset")
    /\ UNCHANGED <<is_installing, uninstall_button, step_labels, progress, config, outputs, tester,
                   remote, fg, threads, shortcuts_created, error_msg, ret, ops,
                   reports, td, full_log, hostname, trace, last_call>>

\* The four entries that frame a title in the log.
Banner(r, title) ==
    <<Line(r, "", << >>), Line(r, "=", << >>), Line(r, title, << >>), Line(r, "=", << >>)>>

\* lines 705-713
install_reset(r) ==
    /\ At(r, "install", "reset")
    /\ progress' = 0
    /\ step_labels' = [i \in Steps |-> "Pending"]
    /\ log(Banner(r, "STARTING DREAMPI INSTALLATION"))
    /\ Goto(r, "connect")
    /\ UNCHANGED <<is_installing, install_button, uninstall_button, config, outputs, tester, remote,
                   fg, threads, shortcuts_created, error_msg, ret, ops, reports,
                   td, hostname, trace, last_call>>

\* The entry a step function logs first.
StepLine(i) ==
    CASE i = 0 -> "Step 1: Connecting to Raspberry Pi..."
      [] i = 1 -> "Step 2: Downloading installation script..."
      [] i = 2 -> "Step 3: Installing DreamPi Link Cable service..."
      [] i = 3 -> "Step 4: Verifying DreamPi Link Cable installation..."
      [] OTHER -> "Step 5: Creating Windows shortcuts..."

\* A step function's first log entry and first update_step_status call.
BeginStep(r, at, step, next) ==
    /\ At(r, "install", at)
    /\ log(<<Line(r, StepLine(step), << >>)>>)
    /\ update_step_status(step, RunningText(step))
    /\ Goto(r, next)
    /\ UNCHANGED <<is_installing, install_button, uninstall_button, config, outputs, tester, remote,
                   fg, threads, shortcuts_created, error_msg, ret, ops, reports,
                   td, hostname, trace, last_call>>

connect_begin(r) == BeginStep(r, "connect", StepConnect, "connect_probe")

\* connect_to_pi returns True exactly when connect_ex returned 0.
connect_ok(out) == out = "ok"

\* The entry connect_to_pi logs after the probe of host:port.
ConnectLine(r, out, host, port) ==
    CASE out = "ok"       -> Line(r, "Successfully connected to", <<host, port>>)
      [] out = "gaierror" -> Line(r, "ERROR: Connection failed - gaierror", << >>)
      [] OTHER            -> Line(r, "ERROR: Connection failed - Cannot connect to", <<host, port>>)

connect_to_pi(r) ==
    /\ At(r, "install", "connect_probe")
    /\ \E out \in ProbeOutcomes :
          /\ Did(r, Op("probe", port_var, out, 0))
          /\ Used(r, "connect", Strip(hostname_var), port_var)
          /\ log(<<ConnectLine(r, out, Strip(hostname_var), port_var)>>)
          /\ update_step_status(StepConnect, IF connect_ok(out) THEN "Complete" ELSE "Failed")
          /\ Returned(r, connect_ok(out), "download", "Failed to connect to Raspberry Pi")
    /\ UNCHANGED <<is_installing, install_button, uninstall_button, config, outputs, tester, remote,
                   fg, threads, shortcuts_created, reports, td, hostname, portal_url,
                   ssh_results, launched, report_text, last_call>>

download_begin(r) == BeginStep(r, "download", StepDownload, "download_fetch")

\* download_install_script returns True exactly when a non-blank body was read.
download_ok(out) == out = "content"

\* What GITHUB_REPO_URL can serve, and the bodies that strip() to nothing.
Payloads == {<<"payload A">>, <<"payload B">>}
EmptyBodies == {<< >>, <<" ">>}

\* response.read().decode('utf-8') for each thing urlopen can do; when it
\* raises nothing is read.
Bodies(out) ==
    CASE out = "content" -> {b \in Payloads \cup EmptyBodies : Strip(b) # << >>}
      [] out = "empty"   -> {b \in Payloads \cup EmptyBodies : Strip(b) = << >>}
      [] OTHER           -> {<< >>}

DownloadLine(r, out) ==
    CASE out = "content" -> Line(r, "Successfully downloaded script", << >>)
      [] out = "empty"   -> Line(r, "ERROR: Download failed - Downloaded script is empty", << >>)
      [] OTHER           -> Line(r, "ERROR: Download failed - urlopen error", << >>)

download_install_script(r) ==
    /\ At(r, "install", "download_fetch")
    /\ \E out \in FetchOutcomes : \E body \in Bodies(out) :
          /\ Did(r, Op("fetch", DOWNLOAD_TIMEOUT, out, 0))
          /\ install_script_content' =
                IF "payload" \in recorded /\ out # "error" THEN body ELSE install_script_content
          /\ log(<<Line(r, "Downloading from:", << >>), DownloadLine(r, out)>>)
          /\ update_step_status(StepDownload, IF download_ok(out) THEN "Complete" ELSE "Failed")
          /\ Returned(r, download_ok(out), "install", "Failed to download installation script")
    /\ UNCHANGED <<is_installing, install_button, uninstall_button, config,
                   uninstall_output_text, tester, remote,
                   fg, threads, shortcuts_created, reports, td, hostname, trace,
                   last_call>>

install_begin(r) == BeginStep(r, "install", StepInstall, "install_exec")

\* Variant of install_ok: only a positive exit code counts as failure.
install_ok_NotPositive(res) == ~res.raised /\ res.code <= 0

\* install_pi_service returns True exactly when the command returned exit code 0.
install_ok(res) == ~res.raised /\ res.code = 0

InstallLine(r, res) ==
    IF res.raised THEN Line(r, "ERROR: Installation failed - exception", << >>)
    ELSE IF res.code = 0 THEN Line(r, "Installation completed successfully", << >>)
    ELSE Line(r, "Installation failed with exit code", <<res.code>>)

\* The install payload is not part of this program: exit code 0 is taken to leave
\* the service installed, any other outcome to leave the target as it was.
install_pi_service(r) ==
    /\ At(r, "install", "install_exec")
    /\ \E ev \in SshEvents, rc \in ExitCodes, sshpass \in BOOLEAN :
          LET res == execute_ssh_command(ev, rc)
              command == install_script(install_script_content)
          IN
          /\ Did(r, SshOp(INSTALL_TIMEOUT, res))
          /\ SshCall(r, INSTALL_TIMEOUT, ev, res)
          /\ Launched(r, ev, res, sshpass, INSTALL_TIMEOUT, command)
          /\ log(<<Line(r, "Executing installation script on Pi...", << >>),
                   Line(r, "This may take a few minutes...", << >>)>>
                 \o SshLog(r, res, INSTALL_TIMEOUT, command)
                 \o (IF res.raised THEN << >> ELSE OutputLog(r, res))
                 \o <<InstallLine(r, res)>>)
          /\ remote' = IF install_ok(res) THEN Installed ELSE remote
          /\ update_step_status(StepInstall, IF install_ok(res) THEN "Complete" ELSE "Failed")
          /\ Returned(r, install_ok(res), "verify", "Failed to install Pi service")
    /\ UNCHANGED <<is_installing, install_button, uninstall_button, config, outputs, tester,
                   fg, threads, shortcuts_created, reports, td, hostname, portal_url,
                   report_text, last_call>>

verify_begin(r) == BeginStep(r, "verify", StepVerify, "verify_probe")

\* Variant of verify_return: verification fails the run unless the port is accessible.
verify_return_Strict(branch) == branch = "accessible"

\* The value verify_installation returns on each of its three ways out: the port
\* is accessible, it is not, or an exception was caught.
verify_return(branch) == TRUE

\* The status verify_installation sets on each of its ways out.
verify_status(branch) == "Complete"

VerifyDone(r, branch) ==
    /\ update_step_status(StepVerify, verify_status(branch))
    /\ Returned(r, verify_return(branch), "shortcuts", "Installation verification failed")

\* The two entries of the except branch of verify_installation.
VerifyExceptLog(r) ==
    <<Line(r, "WARNING: Verification test failed", << >>),
      Line(r, "Installation may still be successful - check manually", << >>)>>

\* Variant of verify_probe: a probe that returns a non-zero result ends the step
\* with its warning and no status query.
verify_probe_NoQuery(r) ==
    /\ At(r, "install", "verify_probe")
    /\ \E out \in ProbeOutcomes :
          /\ Did(r, Op("probe", PORTAL_PORT, out, 0))
          /\ Used(r, "verify", Strip(hostname_var), PORTAL_PORT)
          /\ log(IF out = "gaierror" THEN VerifyExceptLog(r) ELSE << >>)
          /\ VerifyDone(r, CASE out = "ok" -> "accessible"
                             [] out = "gaierror" -> "exception"
                             [] OTHER -> "not_accessible")
    /\ UNCHANGED <<is_installing, install_button, uninstall_button, config, outputs, tester,
                   remote, fg, threads, shortcuts_created, reports, td, hostname,
                   portal_url, ssh_results, launched, report_text, last_call>>

\* verify_installation up to the probe of the portal port
verify_probe(r) ==
    /\ At(r, "install", "verify_probe")
    /\ \E out \in ProbeOutcomes :
          LET host == Strip(hostname_var)
              testing == Line(r, "Testing DreamPi Link Cable web server at", <<host, PORTAL_PORT>>)
          IN
          /\ Did(r, Op("probe", PORTAL_PORT, out, 0))
          /\ Used(r, "verify", host, PORTAL_PORT)
          /\ CASE out = "ok" ->
                    /\ log(<<testing, Line(r, "SUCCESS: web server is accessible at",
                                           <<host, PORTAL_PORT>>)>>)
                    /\ VerifyDone(r, "accessible")
               [] out = "gaierror" ->
                    /\ log(<<testing>> \o VerifyExceptLog(r))
                    /\ VerifyDone(r, "exception")
               [] OTHER ->
                    /\ log(<<testing, Line(r, "WARNING: Web server not yet accessible at",
                                           <<host, PORTAL_PORT>>),
                             Line(r, "Checking service status on Pi...", << >>)>>)
                    /\ Goto(r, "verify_query")
                    /\ UNCHANGED <<step_labels, progress, ret, error_msg>>
    /\ UNCHANGED <<is_installing, install_button, uninstall_button, config, outputs, tester, remote,
                   fg, threads, shortcuts_created, reports, td, hostname, portal_url,
                   ssh_results, launched, report_text, last_call>>

\* verify_installation from the status query on
verify_query(r) ==
    /\ At(r, "install", "verify_query")
    /\ \E ev \in SshEvents, rc \in ExitCodes, sshpass \in BOOLEAN :
          LET res == execute_ssh_command(ev, rc) IN
          /\ Did(r, SshOp(STATUS_TIMEOUT, res))
          /\ SshCall(r, STATUS_TIMEOUT, ev, res)
          /\ Launched(r, ev, res, sshpass, STATUS_TIMEOUT, status_command)
          /\ IF res.raised
             THEN log(VerifyExceptLog(r))
             ELSE log(SshLog(r, res, STATUS_TIMEOUT, status_command)
                      \o (IF res.stdout # << >>
                          THEN <<Line(r, "Service status:", res.stdout)>> ELSE << >>)
                      \o <<Line(r, "Installation may still be successful - service might be starting",
                                << >>)>>)
          /\ VerifyDone(r, IF res.raised THEN "exception" ELSE "not_accessible")
    /\ UNCHANGED <<is_installing, install_button, uninstall_button, config, outputs, tester, remote,
                   fg, threads, shortcuts_created, reports, td, hostname, portal_url,
                   report_text, last_call>>

\* f"http://{hostname}:{PORTAL_PORT}"
Url(host) == <<"http://", host, PORTAL_PORT>>

\* lines 1097-1104
shortcuts_begin(r) ==
    /\ At(r, "install", "shortcuts")
    /\ log(<<Line(r, StepLine(StepShortcuts), << >>)>>)
    /\ update_step_status(StepShortcuts, RunningText(StepShortcuts))
    /\ portal_url' = [portal_url EXCEPT ![r] = Url(Strip(hostname_var))]
    /\ shortcuts_created' = [shortcuts_created EXCEPT ![r] = 0]
    /\ Goto(r, "desktop")
    /\ UNCHANGED <<is_installing, install_button, uninstall_button, config, outputs, tester, remote,
                   fg, threads, error_msg, ret, ops, reports, td, hostname, targets,
                   ssh_results, launched, report_text, last_call>>

\* Variant of after_shortcuts: a False from create_windows_shortcuts raises like
\* the steps before it.
after_shortcuts_Fatal(v) == IF v THEN "success" ELSE "failed"

\* Where install() goes when create_windows_shortcuts returned v: it logs a
\* warning when v is False and goes on to the success report either way.
after_shortcuts(v) == "success"

shortcuts_return(r, v) ==
    /\ ret' = [ret EXCEPT ![r] = Append(@, v)]
    /\ Goto(r, after_shortcuts(v))

\* line 733
ShortcutsWarning(r, v) ==
    IF v THEN << >>
    ELSE <<Line(r, "Warning: Some shortcuts may not have been created", << >>)>>

ShortcutsExceptLog(r) == <<Line(r, "ERROR: Shortcut creation failed", << >>)>>

\* lines 1107-1112, and 1129-1132 when the collaborator raises
shortcut_desktop(r) ==
    /\ At(r, "install", "desktop")
    /\ IF create_desktop_shortcut
       THEN \E out \in ShortcutOutcomes :
               /\ Did(r, Op("desktop", PORTAL_PORT, out, 0))
               /\ Used(r, "desktop", portal_url[r][2], portal_url[r][3])
               /\ IF out = "raise"
                  THEN /\ log(ShortcutsExceptLog(r) \o ShortcutsWarning(r, FALSE))
                       /\ update_step_status(StepShortcuts, "Failed")
                       /\ shortcuts_return(r, FALSE)
                       /\ UNCHANGED shortcuts_created
                  ELSE /\ log(<<Line(r, IF out = "true"
                                        THEN "Desktop shortcut created successfully"
                                        ELSE "Failed to create desktop shortcut", << >>)>>)
                       /\ shortcuts_created' =
                             [shortcuts_created EXCEPT ![r] = IF out = "true" THEN @ + 1 ELSE @]
                       /\ Goto(r, "start_menu")
                       /\ UNCHANGED <<step_labels, progress, ret>>
       ELSE /\ Goto(r, "start_menu")
            /\ UNCHANGED <<step_labels, progress, ret, ops, shortcuts_created, targets,
                           full_log>>
    /\ UNCHANGED <<is_installing, install_button, uninstall_button, config, outputs, tester, remote,
                   fg, threads, error_msg, reports, td, hostname, portal_url,
                   ssh_results, launched, report_text, last_call>>

\* Variant of shortcuts_ok: the count is compared with ">= 0".
shortcuts_ok_NotNegative(created) == created >= 0

\* create_windows_shortcuts returns True exactly when a shortcut was created.
shortcuts_ok(created) == created > 0

\* lines 1115-1127, and 1129-1132 when the collaborator raises
shortcut_start_menu(r) ==
    /\ At(r, "install", "start_menu")
    /\ IF create_start_menu
       THEN \E out \in ShortcutOutcomes :
               /\ Did(r, Op("start_menu", PORTAL_PORT, out, 0))
               /\ Used(r, "start_menu", portal_url[r][2], portal_url[r][3])
               /\ IF out = "raise"
                  THEN /\ log(ShortcutsExceptLog(r) \o ShortcutsWarning(r, FALSE))
                       /\ update_step_status(StepShortcuts, "Failed")
                       /\ shortcuts_return(r, FALSE)
                       /\ UNCHANGED shortcuts_created
                  ELSE LET n == shortcuts_created[r] + (IF out = "true" THEN 1 ELSE 0) IN
                       /\ log(<<Line(r, IF out = "true"
                                        THEN "Start Menu entry created successfully"
                                        ELSE "Failed to create Start Menu entry", << >>)>>
                              \o ShortcutsWarning(r, shortcuts_ok(n)))
                       /\ shortcuts_created' = [shortcuts_created EXCEPT ![r] = n]
                       /\ update_step_status(StepShortcuts,
                                             IF shortcuts_ok(n) THEN "Complete" ELSE "Failed")
                       /\ shortcuts_return(r, shortcuts_ok(n))
       ELSE /\ log(ShortcutsWarning(r, shortcuts_ok(shortcuts_created[r])))
            /\ update_step_status(StepShortcuts,
                                  IF shortcuts_ok(shortcuts_created[r]) THEN "Complete" ELSE "Failed")
            /\ shortcuts_return(r, shortcuts_ok(shortcuts_created[r]))
            /\ UNCHANGED <<ops, shortcuts_created, targets>>
    /\ UNCHANGED <<is_installing, install_button, uninstall_button, config, outputs, tester, remote,
                   fg, threads, error_msg, reports, td, hostname, portal_url,
                   ssh_results, launched, report_text, last_call>>

Report(r, what) == reports' = [reports EXCEPT ![r] = Append(@, what)]

\* Variant of url_host: the field is read again when the report is made.
url_host_Current(r) == Strip(hostname_var)

\* The host in pi_url: the local "hostname" of start_installation, which the
\* nested function install() closes over.
url_host(r) == hostname[r]

\* lines 736-759: the entries of the log that sum up a successful installation.
SuccessLog(r) ==
    Banner(r, "DREAMPI LINK CABLE INSTALLATION COMPLETED!")
    \o <<Line(r, "DreamPi Link Cable Web Server is now available at:", Url(url_host(r))),
         Line(r, "", << >>),
         Line(r, "Installation details:", << >>),
         Line(r, "Service: dreampi-linkcable", << >>),
         Line(r, "Location: /opt/dreampi-linkcable", << >>),
         Line(r, "Auto-start: Enabled", << >>),
         Line(r, "Web interface: Port 1999", << >>)>>
    \o (IF create_desktop_shortcut
        THEN <<Line(r, "Desktop shortcut: Created", << >>)>> ELSE << >>)
    \o (IF create_start_menu
        THEN <<Line(r, "Start Menu entry: Created", << >>)>> ELSE << >>)
    \o <<Line(r, "", << >>),
         Line(r, "Service management commands:", << >>),
         Line(r, "Status: sudo systemctl status dreampi-linkcable", << >>),
         Line(r, "Restart: sudo systemctl restart dreampi-linkcable", << >>),
         Line(r, "Logs: sudo journalctl -u dreampi-linkcable -f", << >>),
         Line(r, "", << >>),
         Line(r, "Installation timestamp:", << >>)>>

\* lines 735-771: the success log and the "Installation Complete" dialog
install_success(r) ==
    /\ At(r, "install", "success")
    /\ log(SuccessLog(r))
    /\ Used(r, "url", url_host(r), PORTAL_PORT)
    /\ report_text' = [report_text EXCEPT ![r] =
                          [kind |-> "success", url |-> Url(url_host(r)), msg |-> "none",
                           recent_logs |-> << >>]]
    /\ Report(r, "success")
    /\ Goto(r, "finally")
    /\ UNCHANGED <<is_installing, gui, config, outputs, tester, remote, fg, threads, shortcuts_created,
                   error_msg, ret, ops, td, hostname, portal_url, ssh_results,
                   launched, last_call>>

\* self.full_log[-10:]
recent_logs(lg) == LastN(lg, LogTail)

\* lines 773-821: the except branch and its "Installation Failed" dialog
install_failure(r) ==
    /\ At(r, "install", "failed")
    /\ log(<<Line(r, "ERROR: Installation failed -", <<error_msg[r]>>)>>)
    /\ report_text' = [report_text EXCEPT ![r] =
                          [kind |-> "failure", url |-> << >>, msg |-> error_msg[r],
                           recent_logs |-> recent_logs(full_log')]]
    /\ Report(r, "failure")
    /\ Goto(r, "finally")
    /\ UNCHANGED <<is_installing, gui, config, outputs, tester, remote, fg, threads, shortcuts_created,
                   error_msg, ret, ops, td, hostname, portal_url, targets,
                   ssh_results, launched, last_call>>

\* Variant of install_finally: the flag is left as it is.
install_finally_KeepFlag(r) ==
    /\ At(r, "install", "finally")
    /\ Goto(r, "enable_button")
    /\ UNCHANGED <<is_installing, gui, config, outputs, tester, remote, fg, threads, shortcuts_created,
                   error_msg, ret, ops, reports, td, full_log, hostname, trace,
                   last_call>>

\* line 824
install_finally(r) ==
    /\ At(r, "install", "finally")
    /\ is_installing' = FALSE
    /\ Goto(r, "enable_button")
    /\ UNCHANGED <<gui, config, outputs, tester, remote, fg, threads, shortcuts_created, error_msg,
                   ret, ops, reports, td, full_log, hostname, trace, last_call>>

\* line 825
install_enable_button(r) ==
    /\ At(r, "install", "enable_button")
    /\ install_button' = "normal"
    /\ ThreadEnds(r)
    /\ UNCHANGED <<is_installing, uninstall_button, step_labels, progress, config, outputs, tester,
                   remote, fg, threads, full_log, last_call>>

\* ---------------------------------------------------------------- uninstall()
\* line 1379
uninstall_set_flag(r) ==
    /\ At(r, "uninstall", "spawned")
    /\ is_installing' = TRUE
    /\ Goto(r, "disable_button")
    /\ UNCHANGED <<gui, config, outputs, tester, remote, fg, threads, shortcuts_created, error_msg,
                   ret, ops, reports, td, full_log, hostname, trace, last_call>>

\* line 1380
uninstall_disable_button(r) ==
    /\ At(r, "uninstall", "disable_button")
    /\ uninstall_button' = "disabled"
    /\ Goto(r, "execute")
    /\ UNCHANGED <<is_installing, install_button, step_labels, progress, config, outputs, tester,
                   remote, fg, threads, shortcuts_created, error_msg, ret, ops,
                   reports, td, full_log, hostname, trace, last_call>>

\* Variant of uninstall_ok: only a positive exit code counts as failure.
uninstall_ok_NotPositive(res) == ~res.raised /\ res.code <= 0

\* execute_uninstall returns True exactly when the command returned exit code 0.
uninstall_ok(res) == ~res.raised /\ res.code = 0

\* self.uninstall_log: the entries are appended to self.uninstall_output_text.
uninstall_log(lines) ==
    uninstall_output_text' =
        IF "log" \in recorded THEN uninstall_output_text \o lines ELSE uninstall_output_text

\* What execute_ssh_command logs when execute_uninstall calls it: line 899 calls
\* self.log, so the entry goes to the install log and the stored full log.
UninstallSshLog(r, res) == SshLog(r, res, UNINSTALL_TIMEOUT, uninstall_command)

\* lines 1383-1386 and 1490-1516: what uninstall() and execute_uninstall write to
\* the uninstall log up to the return of execute_uninstall.
UninstallLog(r, res) ==
    Banner(r, "STARTING DREAMPI LINK CABLE UNINSTALL")
    \o <<Line(r, "Executing uninstall commands on Pi...", << >>),
         Line(r, "This may take a few moments...", << >>)>>
    \o (IF res.raised
        THEN <<Line(r, "ERROR: Uninstall execution failed - exception", << >>)>>
        ELSE Forwarded(r, "Pi:", res.stdout) \o Forwarded(r, "SSH Error:", res.stderr)
             \o <<IF res.code = 0
                   THEN Line(r, "Uninstall completed successfully", << >>)
                   ELSE Line(r, "Uninstall failed with exit code", <<res.code>>)>>)

\* lines 1392-1399
UninstallSuccessLog(r) ==
    Banner(r, "DREAMPI LINK CABLE UNINSTALLED SUCCESSFULLY!")
    \o <<Line(r, "All DreamPi Link Cable files and services have been removed.", << >>),
         Line(r, "Your Pi has been cleaned up and returned to its previous state.", << >>),
         Line(r, "", << >>),
         Line(r, "To reinstall in the future, run this installer again.", << >>)>>

\* execute_uninstall. When the ssh process exits, either ssh itself failed (255,
\* the script did not run) or the script ran with some set of its sudo commands
\* succeeding; on a timeout or a failure to start ssh the target is left as it was.
\* Its own messages go to uninstall_log; execute_ssh_command writes to log.
execute_uninstall(r) ==
    /\ At(r, "uninstall", "execute")
    /\ \E ev \in SshEvents, sshpass \in BOOLEAN :
          \/ /\ ev = "exit"
             /\ \E ok \in SUBSET SudoCmds :
                   LET run == uninstall_script(remote, ok)
                       res == execute_ssh_command(ev, run.code)
                   IN  /\ Did(r, SshOp(UNINSTALL_TIMEOUT, res))
                       /\ SshCall(r, UNINSTALL_TIMEOUT, ev, res)
                       /\ Launched(r, ev, res, sshpass, UNINSTALL_TIMEOUT, uninstall_command)
                       /\ log(UninstallSshLog(r, res))
                       /\ uninstall_log(UninstallLog(r, res))
                       /\ remote' = run.st
                       /\ td' = [td EXCEPT ![r] = [ran |-> TRUE, allok |-> ok = SudoCmds,
                                                    pre |-> remote, code |-> run.code,
                                                    post |-> run.st]]
                       /\ Returned(r, uninstall_ok(res), "success", "Uninstall process failed")
          \/ LET res == execute_ssh_command(ev, 255)
             IN  /\ Did(r, SshOp(UNINSTALL_TIMEOUT, res))
                 /\ SshCall(r, UNINSTALL_TIMEOUT, ev, res)
                 /\ Launched(r, ev, res, sshpass, UNINSTALL_TIMEOUT, uninstall_command)
                 /\ log(UninstallSshLog(r, res))
                 /\ uninstall_log(UninstallLog(r, res))
                 /\ UNCHANGED <<remote, td>>
                 /\ Returned(r, uninstall_ok(res), "success", "Uninstall process failed")
    /\ UNCHANGED <<is_installing, gui, config, install_script_content, tester, fg, threads,
                   shortcuts_created, reports, hostname, portal_url, report_text, last_call>>

\* lines 1391-1404: the success log and the "Uninstall Complete" dialog
uninstall_success(r) ==
    /\ At(r, "uninstall", "success")
    /\ uninstall_log(UninstallSuccessLog(r))
    /\ Report(r, "success")
    /\ Goto(r, "finally")
    /\ UNCHANGED <<is_installing, gui, config, install_script_content, tester, remote, fg, threads, shortcuts_created,
                   error_msg, ret, ops, td, full_log, hostname, trace, last_call>>

\* lines 1406-1410: the except branch and its "Uninstall Failed" dialog
uninstall_failure(r) ==
    /\ At(r, "uninstall", "failed")
    /\ uninstall_log(<<Line(r, "ERROR: Uninstall failed -", <<error_msg[r]>>)>>)
    /\ Report(r, "failure")
    /\ Goto(r, "finally")
    /\ UNCHANGED <<is_installing, gui, config, install_script_content, tester, remote, fg, threads, shortcuts_created,
                   error_msg, ret, ops, td, full_log, hostname, trace, last_call>>

\* line 1413
uninstall_finally(r) ==
    /\ At(r, "uninstall", "finally")
    /\ is_installing' = FALSE
    /\ Goto(r, "enable_button")
    /\ UNCHANGED <<gui, config, outputs, tester, remote, fg, threads, shortcuts_created, error_msg,
                   ret, ops, reports, td, full_log, hostname, trace, last_call>>

\* line 1414
uninstall_enable_button(r) ==
    /\ At(r, "uninstall", "enable_button")
    /\ uninstall_button' = "normal"
    /\ ThreadEnds(r)
    /\ UNCHANGED <<is_installing, install_button, step_labels, progress, config, outputs, tester,
                   remote, fg, threads, full_log, last_call>>

\* ---------------------------------------------------------------- test_pi_connection
\* line 684: every call starts a thread; there is no busy check.
test_pi_connection ==
    /\ fg = "idle"
    /\ nTests < MaxTests
    /\ nTests' = nTests + 1
    /\ test_pc' = [test_pc EXCEPT ![nTests + 1] = "spawned"]
    /\ UNCHANGED <<is_installing, gui, config, outputs, remote, fg, threads, pc,
                   shortcuts_created, error_msg, ret, ops, reports, td, full_log, hostname,
                   trace, last_call, connection_status_label, test_local, test_ops,
                   test_notice>>

TestAt(t, l) == test_pc[t] = l

\* What reading the port field can do: IntVar.get() raises when the field does
\* not hold a number.
PortReads == {"read", "bad_port"}

\* What socket.gethostbyname can do: return, raise socket.gaierror, or raise
\* another exception.
ResolveOutcomes == {"ok", "gaierror", "error"}

\* The entries of test thread t are signed -t.
TestLine(t, text, arg) == Line(0 - t, text, arg)

\* lines 636-643. The two reads come before the try: an exception of the second
\* ends the thread.
test_begin(t) ==
    /\ TestAt(t, "spawned")
    /\ \E read \in PortReads :
          IF read = "bad_port"
          THEN /\ test_pc' = [test_pc EXCEPT ![t] = "crashed"]
               /\ UNCHANGED <<full_log, test_local>>
          ELSE IF Strip(hostname_var) = << >>
          THEN /\ log(<<TestLine(t, "ERROR: Please enter Pi hostname/IP address", << >>)>>)
               /\ test_pc' = [test_pc EXCEPT ![t] = "done"]
               /\ UNCHANGED test_local
          ELSE /\ log(<<TestLine(t, "Testing connection to", <<Strip(hostname_var), port_var>>)>>)
               /\ test_local' = [test_local EXCEPT ![t] =
                                    [hostname |-> Strip(hostname_var), port |-> port_var]]
               /\ test_pc' = [test_pc EXCEPT ![t] = "resolve"]
    /\ UNCHANGED <<is_installing, gui, config, outputs, remote, fg, threads, pc,
                   shortcuts_created, error_msg, ret, ops, reports, td, hostname, trace,
                   last_call, connection_status_label, nTests, test_ops, test_notice>>

\* Variant of test_outcome: a name that does not resolve is reported like a
\* closed port.
test_outcome_NoSsh(stage, out) ==
    CASE out = "ok" /\ stage = "connect" -> "Ready"
      [] out = "ok"                      -> "resolved"
      [] out = "error"                   -> "Connection Error"
      [] OTHER                           -> "No SSH"

\* Where the try block of test() ends for each thing gethostbyname ("resolve")
\* and connect_ex ("connect") can do: lines 656-682.
test_outcome(stage, out) ==
    CASE out = "ok" /\ stage = "connect" -> "Ready"
      [] out = "ok"                      -> "resolved"
      [] out = "gaierror"                -> "Not found"
      [] out = "error"                   -> "Connection Error"
      [] OTHER                           -> "No SSH"

\* The text of connection_status_label for an outcome.
status_text(local, outcome) ==
    CASE outcome \in {"Ready", "No SSH"} -> <<local.hostname, local.port, outcome>>
      [] outcome = "Not found"           -> <<local.hostname, outcome>>
      [] OTHER                           -> <<outcome>>

\* The branch of test() that reports an outcome: a log entry, the status label
\* and a dialog.
test_report(t, outcome) ==
    /\ log(<<TestLine(t, outcome, <<test_local[t].hostname, test_local[t].port>>)>>)
    /\ connection_status_label' = status_text(test_local[t], outcome)
    /\ test_notice' = [test_notice EXCEPT ![t] = outcome]
    /\ test_pc' = [test_pc EXCEPT ![t] = "done"]

\* lines 645-648
test_resolve(t) ==
    /\ TestAt(t, "resolve")
    /\ \E out \in ResolveOutcomes :
          /\ test_ops' = [test_ops EXCEPT ![t] = Append(@, Op("resolve", 0, out, 0))]
          /\ IF test_outcome("resolve", out) = "resolved"
             THEN /\ log(<<TestLine(t, "SUCCESS: Hostname resolved", <<test_local[t].hostname>>)>>)
                  /\ test_pc' = [test_pc EXCEPT ![t] = "connect"]
                  /\ UNCHANGED <<connection_status_label, test_notice>>
             ELSE test_report(t, test_outcome("resolve", out))
    /\ UNCHANGED <<is_installing, gui, config, outputs, remote, fg, threads, pc,
                   shortcuts_created, error_msg, ret, ops, reports, td, hostname, trace,
                   last_call, nTests, test_local>>

\* lines 650-669
test_connect(t) ==
    /\ TestAt(t, "connect")
    /\ \E out \in ProbeOutcomes :
          /\ test_ops' = [test_ops EXCEPT ![t] = Append(@, Op("probe", test_local[t].port, out, 0))]
          /\ test_report(t, test_outcome("connect", out))
    /\ UNCHANGED <<is_installing, gui, config, outputs, remote, fg, threads, pc,
                   shortcuts_created, error_msg, ret, ops, reports, td, hostname, trace,
                   last_call, nTests, test_local>>

TestThread(t) ==
    \/ test_begin(t)
    \/ test_resolve(t)
    \/ test_connect(t)

\* ---------------------------------------------------------------- specification
Foreground ==
    \/ start_installation
    \/ start_uninstall
    \/ confirm_uninstall

InstallThread(r) ==
    \/ install_set_flag(r)
    \/ install_disable_button(r)
    \/ install_reset(r)
    \/ connect_begin(r)
    \/ connect_to_pi(r)
    \/ download_begin(r)
    \/ download_install_script(r)
    \/ install_begin(r)
    \/ install_pi_service(r)
    \/ verify_begin(r)
    \/ verify_probe(r)
    \/ verify_query(r)
    \/ shortcuts_begin(r)
    \/ shortcut_desktop(r)
    \/ shortcut_start_menu(r)
    \/ install_success(r)
    \/ install_failure(r)
    \/ install_finally(r)
    \/ install_enable_button(r)

UninstallThread(r) ==
    \/ uninstall_set_flag(r)
    \/ uninstall_disable_button(r)
    \/ execute_uninstall(r)
    \/ uninstall_success(r)
    \/ uninstall_failure(r)
    \/ uninstall_finally(r)
    \/ uninstall_enable_button(r)

Next ==
    \/ Foreground
    \/ \E r \in Runs : InstallThread(r)
    \/ \E r \in Runs : UninstallThread(r)

Spec == Init /\ [][Next]_vars

\* The uninstall workflow alone, started against every state of the target.
InitTeardown == InitLocal /\ InitPassword /\ remote \in RemoteStates /\ recorded = {}

NextTeardown ==
    \/ start_uninstall
    \/ confirm_uninstall
    \/ \E r \in Runs : UninstallThread(r)

SpecTeardown == InitTeardown /\ [][NextTeardown]_vars

\* One run, of either workflow, while the user edits the configuration fields;
\* the calls the foreground handles and the results of execute_ssh_command are
\* recorded.
InitConfig ==
    /\ InitLastRun
    /\ InitPassword
    /\ remote \in {TornDown, Installed}
    /\ recorded = {"calls", "ssh"}

Edits ==
    \/ edit_hostname
    \/ edit_username
    \/ edit_port

NextConfig ==
    \/ Foreground
    \/ Edits
    \/ \E r \in Runs : InstallThread(r)
    \/ \E r \in Runs : UninstallThread(r)

SpecConfig == InitConfig /\ [][NextConfig]_vars

\* Install runs with the log recorded.
InitLog ==
    /\ InitLocal
    /\ InitPassword
    /\ Strip(hostname_var) # << >>
    /\ Strip(username_var) # << >>
    /\ ~create_desktop_shortcut
    /\ ~create_start_menu
    /\ remote = TornDown
    /\ recorded = {"log"}

NextLog ==
    \/ start_installation
    \/ \E r \in Runs : InstallThread(r)

SpecLog == InitLog /\ [][NextLog]_vars

\* One run, of either workflow, with the configuration as it was at start-up and
\* any password; the log, the results and the command lines of
\* execute_ssh_command and the downloaded payload are recorded.
InitRun ==
    /\ InitLastRun
    /\ Strip(hostname_var) # << >>
    /\ Strip(username_var) # << >>
    /\ password_var \in Passwords
    /\ remote \in {TornDown, Installed}
    /\ recorded = {"log", "ssh", "payload", "argv"}

SpecRun == InitRun /\ [][Next]_vars

\* The connectivity test beside one install run, with the log recorded.
InitProbe ==
    /\ InitLastRun
    /\ InitPassword
    /\ ~create_desktop_shortcut
    /\ ~create_start_menu
    /\ remote = TornDown
    /\ recorded = {"log"}

NextProbe ==
    \/ test_pi_connection
    \/ \E t \in Tests : TestThread(t)
    \/ start_installation
    \/ \E r \in Runs : InstallThread(r)

SpecProbe == InitProbe /\ [][NextProbe]_vars

\* The threads keep running: the scheduler gives every started thread its turn,
\* every external call returns and every dialog of a thread is answered.
Fairness ==
    \A r \in Runs : WF_vars(InstallThread(r)) /\ WF_vars(UninstallThread(r))

InitLive ==
    /\ InitLocal
    /\ InitPassword
    /\ Strip(hostname_var) # << >>
    /\ Strip(username_var) # << >>
    /\ create_desktop_shortcut
    /\ ~create_start_menu
    /\ remote = Installed
    /\ recorded = {}

SpecLive == InitLive /\ [][Next]_vars /\ Fairness

\* ---------------------------------------------------------------- properties
InFlight(r) == pc[r] \notin {"idle", "done"}
InstallRuns == {r \in Runs : kind[r] = "install"}
UninstallRuns == {r \in Runs : kind[r] = "uninstall"}

\* Thread r has produced its report: only the finally block is left.
Ended(r) == pc[r] \in {"finally", "enable_button"}

\* Thread r has set the busy flag and has not yet cleared it.
HoldsFlag(r) == InFlight(r) /\ pc[r] \notin {"spawned", "enable_button"}

\* C1. Busy-guard: a start_installation call made while an install run is in
\* flight (from the moment its thread was started until it has finished) starts
\* no second install thread.
C1_BusyGuard ==
    [][(\E r \in InstallRuns : InFlight(r))
          => ~(nRuns' = nRuns + 1 /\ kind'[nRuns'] = "install")]_vars

\* C2. Mutual exclusion: at most one install or uninstall thread is in flight,
\* and the busy flag is set whenever a thread is between setting it and
\* clearing it in its finally block.
C2_MutualExclusion ==
    /\ Cardinality({r \in Runs : InFlight(r)}) <= 1
    /\ \A r \in Runs : HoldsFlag(r) => is_installing

OpsOf(r, names) == {i \in 1..Len(ops[r]) : ops[r][i].op \in names}
IsRunning(text) == text \in RunningTexts

\* The Connect probe of thread r has been made and did not succeed.
ConnectProbeFailed(r) ==
    /\ Len(ops[r]) >= 1
    /\ ops[r][1] \in {Op("probe", DEFAULT_PORT, out, 0) : out \in ProbeOutcomes \ {"ok"}}

\* Thread r produces its final report in this step.
Reporting(r) == pc[r] \in {"success", "failed"} /\ pc'[r] = "finally"

\* C3. An install run whose Connect probe fails ends with Connect Failed, the
\* other four steps Pending, a failure report, and no remote execution and no
\* HTTP fetch made by the run.
C3_UnreachableStopsAtConnect ==
    [][\A r \in InstallRuns :
          Reporting(r) /\ ConnectProbeFailed(r) =>
              /\ step_labels'[StepConnect] = "Failed"
              /\ \A i \in Steps \ {StepConnect} : step_labels'[i] = "Pending"
              /\ reports'[r] = <<"failure">>
              /\ \A n \in 1..Len(ops'[r]) : ops'[r][n].op \notin {"ssh", "fetch"}]_vars

\* The operations that belong to step i.
StepOps(i) ==
    CASE i = StepConnect   -> {Op("probe", DEFAULT_PORT, out, 0) : out \in ProbeOutcomes}
      [] i = StepDownload  -> {Op("fetch", DOWNLOAD_TIMEOUT, out, 0) : out \in FetchOutcomes}
      [] i = StepInstall   -> {SshOp(INSTALL_TIMEOUT, execute_ssh_command(ev, rc)) :
                                  ev \in SshEvents, rc \in ExitCodes}
      [] i = StepVerify    -> {Op("probe", PORTAL_PORT, out, 0) : out \in ProbeOutcomes}
                              \cup {SshOp(STATUS_TIMEOUT, execute_ssh_command(ev, rc)) :
                                       ev \in SshEvents, rc \in ExitCodes}
      [] OTHER             -> {Op(n, PORTAL_PORT, out, 0) :
                                  n \in {"desktop", "start_menu"}, out \in ShortcutOutcomes}

\* Step k of thread r returned False, the steps before it True.
FailedAt(r, k) ==
    /\ Len(ret[r]) = k + 1
    /\ ~ret[r][k + 1]
    /\ \A i \in 1..k : ret[r][i]

\* C4. Fatal abort: when Connect, Download or Install fails the run ends with
\* that step Failed, the earlier steps Complete, the later steps Pending, no
\* operation of a later step performed, and exactly one report, a failure.
C4_FatalAbort ==
    [][\A r \in InstallRuns : \A k \in {StepConnect, StepDownload, StepInstall} :
          Reporting(r) /\ FailedAt(r, k) =>
              /\ step_labels'[k] = "Failed"
              /\ \A i \in Steps : i < k => step_labels'[i] = "Complete"
              /\ \A i \in Steps : i > k => step_labels'[i] = "Pending"
              /\ \A n \in 1..Len(ops'[r]) : \A i \in Steps :
                    i > k => ops'[r][n] \notin StepOps(i)
              /\ reports'[r] = <<"failure">>]_vars

\* C5. Verify is never fatal: verify_installation returns True and leaves the
\* Verify step Complete whatever the probe and the status query did, the run
\* never raises "Installation verification failed", and a run whose first
\* three steps returned True ends with exactly one report, a success.
C5_VerifyNeverFatal ==
    /\ [](\A r \in InstallRuns :
            /\ Len(ret[r]) >= 4 => ret[r][4]
            /\ error_msg[r] # "Installation verification failed"
            /\ (Ended(r) /\ Len(ret[r]) >= 3 /\ ret[r][1] /\ ret[r][2] /\ ret[r][3])
                  => reports[r] = <<"success">>)
    /\ [][\A r \in InstallRuns :
            Len(ret[r]) = 3 /\ Len(ret'[r]) = 4 => step_labels'[StepVerify] = "Complete"]_vars

C5_Witness ==
    \E r \in InstallRuns :
        /\ reports[r] = <<"success">>
        /\ \E i \in 1..Len(ops[r]) :
              /\ ops[r][i] = Op("probe", PORTAL_PORT, "refused", 0)
              /\ i < Len(ops[r])
              /\ ops[r][i + 1] = Op("ssh", STATUS_TIMEOUT, "returned", -1)

\* C6. Shortcut creation never fails the install: once Verify has returned,
\* whatever the two flags are and whatever the collaborators do, the run does
\* not raise and ends with exactly one report, a success.
C6_ShortcutsNeverFatal ==
    \A r \in InstallRuns :
        Len(ret[r]) >= 4 /\ ret[r][4] =>
            /\ pc[r] # "failed"
            /\ Ended(r) => reports[r] = <<"success">>

C6_Witness ==
    \E r \in InstallRuns :
        /\ reports[r] = <<"success">>
        /\ Len(ret[r]) = 5
        /\ ~ret[r][5]
        /\ step_labels[StepShortcuts] = "Failed"
        /\ OpsOf(r, {"start_menu"}) # {}
        /\ \A i \in OpsOf(r, {"desktop", "start_menu"}) : ops[r][i].out # "true"

\* C7. Strictly sequential steps: a step has left Pending only if the step
\* before it is Complete, and at most one step is running.
C7_Sequential ==
    /\ \A i \in Steps \ {StepConnect} :
          step_labels[i] # "Pending" => step_labels[i - 1] = "Complete"
    /\ Cardinality({i \in Steps : IsRunning(step_labels[i])}) <= 1

\* Thread r is past the reset of its labels and has not yet reported.
InSteps(r) ==
    kind[r] = "install" /\ InFlight(r) /\ pc[r] \notin {"spawned", "disable_button", "reset"}

Forward(i, old, new) ==
    \/ old = "Pending" /\ new = RunningText(i)
    \/ old = RunningText(i) /\ new \in Terminal

\* C8. Step lifecycle: a run starts by resetting the five statuses to Pending,
\* and while it is under way every change of a status is Pending -> running or
\* running -> Complete or Failed.
C8_Lifecycle ==
    [][\A r \in InstallRuns :
          /\ pc[r] = "reset" /\ pc'[r] # "reset" => \A i \in Steps : step_labels'[i] = "Pending"
          /\ InSteps(r) /\ InSteps(r)' =>
                \A i \in Steps :
                    step_labels'[i] # step_labels[i] => Forward(i, step_labels[i], step_labels'[i])]_vars

\* C9. Uninstall outcome: an uninstall run calls execute_ssh_command exactly
\* once, with timeout 120, and produces exactly one report, which is the success
\* report exactly when the call returned exit code 0.
C9_UninstallOutcome ==
    \A r \in UninstallRuns :
        Ended(r) =>
            /\ Len(ops[r]) = 1
            /\ ops[r][1].op = "ssh"
            /\ ops[r][1].arg = UNINSTALL_TIMEOUT
            /\ Len(reports[r]) = 1
            /\ reports[r][1] \in {"success", "failure"}
            /\ reports[r][1] = "success" <=> (ops[r][1].out = "returned" /\ ops[r][1].code = 0)

C9_Witness ==
    \E r \in UninstallRuns :
        /\ Ended(r)
        /\ reports[r] = <<"failure">>
        /\ ops[r] = <<Op("ssh", UNINSTALL_TIMEOUT, "returned", -1)>>

\* C10. Teardown idempotence: when every sudo command succeeds the script exits
\* 0 and leaves nothing of the four behind, from any state of the target; run
\* from the torn-down state it exits 0 and leaves the target torn down.
C10_TeardownIdempotent ==
    \A r \in UninstallRuns :
        td[r].ran /\ td[r].allok =>
            /\ td[r].code = 0
            /\ td[r].post = TornDown
            /\ uninstall_script(td[r].post, SudoCmds) = [code |-> 0, st |-> td[r].post]

C10_Witness ==
    /\ nRuns = 2
    /\ pc[1] = "done"
    /\ td[2].ran /\ td[2].allok
    /\ td[2].pre = TornDown
    /\ td[2].code = 0
    /\ remote = TornDown

\* C11. Success report address: the local "hostname" of a run is the trimmed
\* hostname field as it was when start_installation was called, and the URL in
\* the success report of the run is "http://" + that host + ":1999".
C11_SuccessUrl ==
    [][/\ nRuns' = nRuns + 1 => hostname'[nRuns'] = Strip(hostname_var)
       /\ \A r \in InstallRuns :
             Reporting(r) /\ reports'[r] = <<"success">> =>
                 /\ report_text'[r].kind = "success"
                 /\ report_text'[r].url = <<"http://", hostname[r], 1999>>]_vars

C11_Witness ==
    \E r \in InstallRuns :
        /\ Ended(r)
        /\ reports[r] = <<"success">>
        /\ report_text[r].url = <<"http://", <<"p", "i">>, 1999>>
        /\ Strip(hostname_var) = <<"q">>
        /\ Len(ops[r]) = 4
        /\ ops[r][1] = Op("probe", DEFAULT_PORT, "ok", 0)
        /\ ops[r][2] = Op("fetch", DOWNLOAD_TIMEOUT, "content", 0)
        /\ ops[r][3] = Op("ssh", INSTALL_TIMEOUT, "returned", 0)
        /\ ops[r][4] = Op("probe", PORTAL_PORT, "ok", 0)

\* The entries a step logs when it fails.
ErrorTexts(k) ==
    CASE k = StepConnect  -> {"ERROR: Connection failed - Cannot connect to",
                              "ERROR: Connection failed - gaierror"}
      [] k = StepDownload -> {"ERROR: Download failed - Downloaded script is empty",
                              "ERROR: Download failed - urlopen error"}
      [] OTHER            -> {"Installation failed with exit code",
                              "ERROR: Installation failed - exception"}

Contains(lines, by, texts) ==
    \E i \in 1..Len(lines) : lines[i].by = by /\ lines[i].text \in texts

\* C12. Failure report content: the failure report of an install run holds the
\* message of the exception that ended the run and the last 10 entries of the
\* log; these include the error entry of the step that failed, which for a
\* Connect probe of H:P with a non-zero result reads "Cannot connect to H:P".
C12_FailureReport ==
    [][\A r \in InstallRuns :
          Reporting(r) /\ reports'[r] = <<"failure">> =>
              /\ report_text'[r].kind = "failure"
              /\ report_text'[r].msg = error_msg[r]
              /\ report_text'[r].recent_logs = LastN(full_log', 10)
              /\ \A k \in {StepConnect, StepDownload, StepInstall} :
                    FailedAt(r, k) => Contains(report_text'[r].recent_logs, r, ErrorTexts(k))
              /\ (FailedAt(r, StepConnect) /\ ops[r][1].out \in {"refused", "timeout"}) =>
                    \E i \in 1..Len(report_text'[r].recent_logs) :
                        report_text'[r].recent_logs[i] =
                            Line(r, "ERROR: Connection failed - Cannot connect to",
                                 <<targets[r][1].host, targets[r][1].port>>)]_vars

\* C13. Configuration snapshot: every operation of an install run is aimed at
\* the host that was in force when the run was started, which is also the host
\* of the reported URL, and every remote execution uses the port of the Connect
\* probe, whatever the user types into the fields during the run.
C13_ConfigSnapshot ==
    \A r \in InstallRuns :
        \A i \in 1..Len(targets[r]) :
            /\ targets[r][i].host = hostname[r]
            /\ targets[r][i].use = "ssh" => targets[r][i].port = targets[r][1].port

\* The foreground handles a call in this step.
CallStep == last_call' # last_call

TrimmedEmpty(field) == \A i \in 1..Len(field) : field[i] = " "

\* C14. Precondition on configuration: no thread is started while the trimmed
\* hostname or the trimmed username is empty, and a call made then changes
\* neither the busy flag nor the step statuses nor the progress value and makes
\* no probe, fetch or remote execution.
C14_ConfigPrecondition ==
    [][/\ nRuns' = nRuns + 1 => ~TrimmedEmpty(hostname_var) /\ ~TrimmedEmpty(username_var)
       /\ CallStep /\ (TrimmedEmpty(hostname_var) \/ TrimmedEmpty(username_var)) =>
             /\ last_call'.outcome \in {"busy", "missing"}
             /\ ~is_installing => last_call'.outcome = "missing"
             /\ UNCHANGED <<is_installing, step_labels, progress, ops, targets, ssh_results,
                            remote, nRuns, kind, pc, fg>>]_vars

C14_Witness ==
    /\ last_call = Call("start_installation", "missing", "Configuration Required")
    /\ hostname_var = <<" ">>
    /\ username_var = <<"p", "i">>
    /\ nEdits = 0
    /\ nRuns = MaxRuns - 1
    /\ \A r \in Runs : ops[r] = << >>

\* C15. Uninstall gate: start_uninstall validates the settings, then asks for
\* confirmation, and only a yes starts the uninstall thread; a call that finds
\* a setting missing or is declined starts no thread, executes nothing on the
\* target and leaves the busy flag as it was.
C15_UninstallGate ==
    [][/\ (nRuns' = nRuns + 1 /\ kind'[nRuns'] = "uninstall") =>
             /\ fg = "confirm"
             /\ last_call = Call("start_uninstall", "asked", "Confirm Uninstall")
             /\ last_call' = Call("start_uninstall", "confirmed", "none")
       /\ (fg = "idle" /\ fg' = "confirm") =>
             ~TrimmedEmpty(hostname_var) /\ ~TrimmedEmpty(username_var)
       /\ (CallStep /\ last_call'.fn = "start_uninstall"
              /\ last_call'.outcome \in {"missing", "declined"}) =>
             /\ fg' = "idle"
             /\ UNCHANGED <<is_installing, ops, targets, ssh_results, remote, nRuns, kind, pc>>
       /\ \A r \in UninstallRuns : Len(ops'[r]) > Len(ops[r]) => pc[r] = "execute"]_vars

C15_Witness ==
    /\ last_call = Call("start_uninstall", "declined", "none")
    /\ fg = "idle"
    /\ ~is_installing
    /\ nRuns = MaxRuns - 1
    /\ \A r \in Runs : ops[r] = << >> /\ ssh_results[r] = << >>

Quiescent == \A r \in Runs : ~InFlight(r)

C17_RejectionNotice ==
    [][(CallStep /\ fg = "idle" /\ is_installing) =>
          /\ last_call'.outcome = "busy"
          /\ last_call'.notice # "none"
          /\ UNCHANGED <<nRuns, kind, pc, fg>>]_vars

\* The results execute_ssh_command has returned to thread r.
SshResults(r) == {ssh_results[r][i] : i \in 1..Len(ssh_results[r])}

\* C18. Remote execution timeout: when the timeout expires execute_ssh_command
\* kills the ssh process and returns exit code -1 with a text that says the
\* command timed out; it raises nothing.
C18_SshTimeout ==
    \A r \in Runs : \A e \in SshResults(r) :
        e.ev = "timeout" =>
            /\ e.res.killed
            /\ ~e.res.raised
            /\ e.res.code = -1
            /\ e.res.stderr = <<"SSH command timed out">>

C18_Witness ==
    \E r \in InstallRuns :
        /\ Len(ssh_results[r]) = 1
        /\ ssh_results[r][1].ev = "timeout"
        /\ ssh_results[r][1].timeout = INSTALL_TIMEOUT
        /\ ops[r][3] = Op("ssh", INSTALL_TIMEOUT, "returned", -1)

\* C19. Transport failure: when the ssh process cannot be started
\* execute_ssh_command raises nothing and returns exit code -1, no output and
\* the message of the error; the Install step then ends Failed and the run
\* fails, and so does an uninstall run.
C19_TransportFailure ==
    /\ [](\A r \in Runs : \A e \in SshResults(r) :
             e.ev = "popen_error" =>
                 /\ ~e.res.raised /\ e.res.code = -1
                 /\ e.res.stdout = << >> /\ e.res.stderr = <<"str(e)">>
                 /\ e.timeout \in {INSTALL_TIMEOUT, UNINSTALL_TIMEOUT} =>
                       /\ pc[r] \in {"failed", "finally", "enable_button"}
                       /\ Ended(r) => reports[r] = <<"failure">>)
    /\ [][\A r \in InstallRuns :
             (/\ Len(ssh_results'[r]) = 1 /\ Len(ssh_results[r]) = 0
              /\ ssh_results'[r][1].ev = "popen_error") =>
                 /\ step_labels'[StepInstall] = "Failed"
                 /\ ret'[r] = <<TRUE, TRUE, FALSE>>]_vars

C19_Witness ==
    \E r \in InstallRuns :
        /\ Ended(r)
        /\ reports[r] = <<"failure">>
        /\ Len(ssh_results[r]) = 1
        /\ ssh_results[r][1].ev = "popen_error"
        /\ ssh_results[r][1].timeout = INSTALL_TIMEOUT
        /\ step_labels[StepInstall] = "Failed"

\* C20. Cross-thread marshaling: a step of a workflow thread writes no
\* presentation state; the labels, the progress value and the buttons change
\* only in steps of the foreground.
C20_Marshaled ==
    [][\A r \in Runs :
          (pc[r] # "idle" /\ pc'[r] # pc[r]) =>
              UNCHANGED <<install_button, uninstall_button, step_labels, progress>>]_vars

\* The Verify probe of thread r, once it has been made.
VerifyProbes(r) == {i \in OpsOf(r, {"probe"}) : ops[r][i].arg = PORTAL_PORT /\ i > 1}

\* The status queries thread r has issued.
StatusQueries(r) == {i \in OpsOf(r, {"ssh"}) : ops[r][i].arg = STATUS_TIMEOUT}

VerifyReturned(r) == Len(ret[r]) >= 4

\* C21, as claimed. Verify fallback query: when verify_installation has
\* returned, the run has issued exactly one status query with timeout 30 if the
\* probe of port 1999 did not succeed, for whatever reason, and none if it
\* succeeded.
C21_FallbackAnyFailure ==
    \A r \in InstallRuns :
        VerifyReturned(r) =>
            \A i \in VerifyProbes(r) :
                /\ ops[r][i].out # "ok" => Cardinality(StatusQueries(r)) = 1
                /\ ops[r][i].out = "ok" => StatusQueries(r) = {}

\* C21, amended. When connect_ex returned a non-zero result (port closed,
\* timeout) the run issues exactly one status query with timeout 30, right after
\* the probe and before verify_installation returns; when the probe succeeded,
\* or raised an error while resolving or connecting, no status query is issued.
C21_FallbackQuery ==
    \A r \in InstallRuns : \A i \in VerifyProbes(r) :
        /\ ops[r][i].out \in {"refused", "timeout"} =>
              /\ StatusQueries(r) \subseteq {i + 1}
              /\ VerifyReturned(r) => StatusQueries(r) = {i + 1}
              /\ ~VerifyReturned(r) => pc[r] = "verify_query" /\ StatusQueries(r) = {}
        /\ ops[r][i].out \in {"ok", "gaierror"} =>
              /\ StatusQueries(r) = {}
              /\ VerifyReturned(r)

C21_Witness ==
    \E r \in InstallRuns :
        /\ VerifyReturned(r)
        /\ step_labels[StepVerify] = "Complete"
        /\ Len(ops[r]) = 5
        /\ ops[r][4] = Op("probe", PORTAL_PORT, "timeout", 0)
        /\ ops[r][5] = Op("ssh", STATUS_TIMEOUT, "returned", 0)

\* The operations of thread r that op, aimed at arg, names.
Attempts(r, op, arg) == {i \in OpsOf(r, {op}) : ops[r][i].arg = arg}

\* The last step function thread r called returned False.
StepFailed(r) == Len(ret[r]) > 0 /\ ~ret[r][Len(ret[r])]

\* C22. Single attempt per step: an install run makes the Connect probe, the
\* HTTP fetch, the install execution and the Verify probe at most once each; an
\* uninstall run makes the teardown execution at most once, and exactly once by
\* the time it reports; once a step function has returned False the run performs
\* no further operation.
C22_SingleAttempt ==
    /\ [](\A r \in InstallRuns :
            /\ Cardinality(Attempts(r, "probe", DEFAULT_PORT)) <= 1
            /\ Cardinality(Attempts(r, "fetch", DOWNLOAD_TIMEOUT)) <= 1
            /\ Cardinality(Attempts(r, "ssh", INSTALL_TIMEOUT)) <= 1
            /\ Cardinality(Attempts(r, "probe", PORTAL_PORT)) <= 1)
    /\ [](\A r \in UninstallRuns :
            /\ Cardinality(Attempts(r, "ssh", UNINSTALL_TIMEOUT)) <= 1
            /\ Ended(r) => Cardinality(Attempts(r, "ssh", UNINSTALL_TIMEOUT)) = 1)
    /\ [][\A r \in Runs : StepFailed(r) => Len(ops'[r]) <= Len(ops[r])]_vars

C22_Witness ==
    \E r \in InstallRuns :
        /\ Ended(r)
        /\ reports[r] = <<"failure">>
        /\ ret[r] = <<TRUE, FALSE>>
        /\ ops[r] = <<Op("probe", DEFAULT_PORT, "ok", 0), Op("fetch", DOWNLOAD_TIMEOUT, "error", 0)>>

\* The entries of the log lg that thread r wrote with the given prefix: the
\* lines they carry, in the order of the log.
Carried(lg, r, prefix) ==
    LET kept == SelectSeq(lg, LAMBDA e : e.by = r /\ e.text = prefix)
    IN  [i \in 1..Len(kept) |-> kept[i].arg[1]]

\* install_pi_service of thread r returns in this step, execute_ssh_command
\* having returned to it.
InstallStepEnds(r) ==
    /\ pc[r] = "install_exec"
    /\ pc'[r] # "install_exec"
    /\ Len(ssh_results'[r]) = 1
    /\ ~ssh_results'[r][1].res.raised

\* stdout entries come before stderr entries in the log lg.
StdoutFirst(lg) ==
    \A i, j \in 1..Len(lg) :
        lg[i].text = "SSH Error:" /\ lg[j].text = "Pi:" => j < i

\* C23, as claimed. Remote output forwarding: when the Install step ends, every
\* line of the returned stdout is in the log prefixed "Pi: " and every line of
\* the returned stderr prefixed "SSH Error: ", in their order, stdout before
\* stderr, and the step's status, running until then, is terminal.
C23_ForwardsEveryLine ==
    [][\A r \in InstallRuns :
          InstallStepEnds(r) =>
              /\ Carried(full_log', r, "Pi:") = ssh_results'[r][1].res.stdout
              /\ Carried(full_log', r, "SSH Error:") = ssh_results'[r][1].res.stderr
              /\ StdoutFirst(full_log')
              /\ step_labels[StepInstall] = RunningText(StepInstall)
              /\ step_labels'[StepInstall] \in Terminal]_vars

\* The lines of a text that hold something other than whitespace, in their order.
RECURSIVE Visible(_)
Visible(lines) ==
    IF lines = << >> THEN << >>
    ELSE IF Head(lines) \in {"", " "} THEN Visible(Tail(lines))
    ELSE <<Head(lines)>> \o Visible(Tail(lines))

\* C23, amended. When the Install step ends, every line of the returned stdout
\* that is not blank is in the log prefixed "Pi: " and every such line of the
\* returned stderr prefixed "SSH Error: ", in their order, stdout before stderr,
\* and nothing else carries these prefixes; the step's status, running until
\* then, is terminal; for exit code 0 and for any other.
C23_ForwardsOutput ==
    [][\A r \in InstallRuns :
          InstallStepEnds(r) =>
              /\ Carried(full_log', r, "Pi:") = Visible(ssh_results'[r][1].res.stdout)
              /\ Carried(full_log', r, "SSH Error:") = Visible(ssh_results'[r][1].res.stderr)
              /\ StdoutFirst(full_log')
              /\ step_labels[StepInstall] = RunningText(StepInstall)
              /\ step_labels'[StepInstall] \in Terminal]_vars

C23_Witness ==
    \E r \in InstallRuns :
        /\ pc[r] = "verify"
        /\ step_labels[StepInstall] = "Complete"
        /\ ssh_results[r][1].res.code = 0
        /\ ssh_results[r][1].res.stdout = <<"output", "", "done">>
        /\ ssh_results[r][1].res.stderr = <<"Warning: Permanently added">>
        /\ Carried(full_log, r, "Pi:") = <<"output", "done">>
        /\ Carried(full_log, r, "SSH Error:") = <<"Warning: Permanently added">>

\* The execute_ssh_command calls thread r made with the given timeout.
Launches(r, timeout) ==
    {launched[r][i] : i \in {j \in 1..Len(launched[r]) : launched[r][j].timeout = timeout}}

\* C24. Fixed install command: the command the Install step passes to
\* execute_ssh_command is the embedded template whatever payload the Download
\* step stored, so it is the same for every payload and is not the payload; the
\* Install step is reached only after a download that was not empty, and a run
\* whose download failed or was empty makes no remote execution.
C24_FixedInstallCommand ==
    \A r \in InstallRuns :
        /\ \A l \in Launches(r, INSTALL_TIMEOUT) :
              /\ l.command = <<"#!/bin/bash (install template)">>
              /\ l.command # install_script_content
              /\ l.argv # << >> => l.argv[Len(l.argv)] = <<"#!/bin/bash (install template)">>
              /\ install_script_content \in {<<"payload A">>, <<"payload B">>}
              /\ ret[r][2]
        /\ (Len(ops[r]) >= 2 /\ ops[r][2].out \in {"empty", "error"}) =>
              /\ launched[r] = << >>
              /\ Len(ops[r]) = 2
              /\ StepFailed(r)

C24_Witness ==
    \E r \in InstallRuns :
        /\ install_script_content = <<"payload B">>
        /\ Len(launched[r]) = 1
        /\ launched[r][1].timeout = INSTALL_TIMEOUT
        /\ launched[r][1].argv # << >>
        /\ ops[r][2] = Op("fetch", DOWNLOAD_TIMEOUT, "content", 0)
        /\ step_labels[StepInstall] = "Complete"

\* The last probe test thread t made.
LastTestOp(t) == test_ops[t][Len(test_ops[t])]

\* Test thread t makes a probe in this step.
TestProbes(t) == Len(test_ops'[t]) = Len(test_ops[t]) + 1

\* C25. Probe outcomes: the connectivity test connects only after the hostname
\* has resolved; a resolution failure is reported with status "Not found" and a
\* closed or silent port with status "No SSH"; a probe that fails ends the test
\* thread with a reported outcome, and the thread dies of an unhandled error
\* only before it has made any probe; in the Connect step a probe that fails,
\* for whatever reason, makes connect_to_pi log the error, set the step Failed
\* and return False.
C25_ProbeOutcomes ==
    /\ [](\A t \in Tests :
            /\ \A i \in 1..Len(test_ops[t]) :
                  test_ops[t][i].op = "probe" =>
                      i = 2 /\ test_ops[t][1] = Op("resolve", 0, "ok", 0)
            /\ test_pc[t] = "crashed" => test_ops[t] = << >>
            /\ (test_ops[t] # << >> /\ LastTestOp(t).out # "ok") =>
                  /\ test_pc[t] = "done"
                  /\ test_notice[t] \in {"Not found", "No SSH", "Connection Error"})
    /\ [][\A t \in Tests :
             TestProbes(t) =>
                LET op == test_ops'[t][Len(test_ops'[t])] IN
                /\ op.out = "gaierror" =>
                      /\ connection_status_label' = <<test_local[t].hostname, "Not found">>
                      /\ test_notice'[t] = "Not found"
                /\ (op.op = "probe" /\ op.out \in {"refused", "timeout"}) =>
                      /\ connection_status_label' =
                            <<test_local[t].hostname, test_local[t].port, "No SSH">>
                      /\ test_notice'[t] = "No SSH"]_vars
    /\ [][\A r \in InstallRuns :
             (pc[r] = "connect_probe" /\ pc'[r] # "connect_probe" /\ ops'[r][1].out # "ok") =>
                /\ ret'[r] = <<FALSE>>
                /\ pc'[r] = "failed"
                /\ step_labels'[StepConnect] = "Failed"
                /\ full_log'[Len(full_log')].by = r
                /\ full_log'[Len(full_log')].text \in ErrorTexts(StepConnect)]_vars

C25_Witness ==
    \E t \in Tests, r \in InstallRuns :
        /\ test_pc[t] = "done"
        /\ test_ops[t] = <<Op("resolve", 0, "ok", 0), Op("probe", DEFAULT_PORT, "refused", 0)>>
        /\ connection_status_label = <<<<"p", "i">>, DEFAULT_PORT, "No SSH">>
        /\ ops[r] = <<Op("probe", DEFAULT_PORT, "gaierror", 0)>>
        /\ ret[r] = <<FALSE>>
        /\ step_labels[StepConnect] = "Failed"

ShortcutCalls(r) == OpsOf(r, {"desktop", "start_menu"})

\* A collaborator call of thread r returned true.
ShortcutCreated(r) == \E i \in ShortcutCalls(r) : ops[r][i].out = "true"

\* A collaborator call of thread r raised an error.
ShortcutRaised(r) == \E i \in ShortcutCalls(r) : ops[r][i].out = "raise"

\* create_windows_shortcuts has returned to thread r.
ShortcutsReturned(r) == Len(ret[r]) = 5

\* Thread r has come back from create_windows_shortcuts and not yet gone on.
AfterShortcuts(r) == ShortcutsReturned(r) /\ pc[r] = "success"

LastEntry(lg) == lg[Len(lg)]

\* Thread r calls a shortcut collaborator in this step.
CallsCollaborator(r) ==
    /\ Len(ops'[r]) = Len(ops[r]) + 1
    /\ ops'[r][Len(ops'[r])].op \in {"desktop", "start_menu"}

Logged(lg, r, text) == \E i \in 1..Len(lg) : lg[i] = Line(r, text, << >>)

\* The collaborator "name" returned true to thread r.
CollaboratorCreated(r, name) == \E i \in OpsOf(r, {name}) : ops[r][i].out = "true"

\* C27. Success summary matches what happened: when an install run has made its
\* success report, the log says "Desktop shortcut: Created" only if the desktop
\* collaborator returned true in the run, and "Start Menu entry: Created" only
\* if the start-menu collaborator returned true.
C27_SummaryMatches ==
    \A r \in InstallRuns :
        (Ended(r) /\ reports[r] = <<"success">>) =>
            /\ Logged(full_log, r, "Desktop shortcut: Created") =>
                  CollaboratorCreated(r, "desktop")
            /\ Logged(full_log, r, "Start Menu entry: Created") =>
                  CollaboratorCreated(r, "start_menu")

\* C28. Progress invariant: a step that changes a status or the progress value
\* leaves the progress value equal to the number of steps whose status is
\* Complete, so it is between 0 and 5; it is 0 right after the reset at run
\* start; it does not decrease while a run is in its steps; at the end of a
\* successful run it is 5 only if the Shortcuts step ended Complete.
C28_Progress ==
    /\ [](progress \in 0..NumSteps)
    /\ [](\A r \in InstallRuns :
            (Ended(r) /\ reports[r] = <<"success">> /\ progress = NumSteps) =>
                step_labels[StepShortcuts] = "Complete")
    /\ [][/\ (step_labels' # step_labels \/ progress' # progress) =>
                progress' = Cardinality({i \in Steps : step_labels'[i] = "Complete"})
          /\ \A r \in InstallRuns :
                /\ (pc[r] = "reset" /\ pc'[r] # "reset") => progress' = 0
                /\ (InSteps(r) /\ InSteps(r)') => progress' >= progress]_vars

\* C29. Uninstall leaves install state alone: while an uninstall run is in
\* flight, from its start to its final report, no step changes any of the five
\* install step statuses or the progress value, and nothing is appended to the
\* install log (the stored full log): the uninstall log only grows at its end.
C29_UninstallFrame ==
    [][\A u \in UninstallRuns :
          InFlight(u) =>
              /\ step_labels' = step_labels
              /\ progress' = progress
              /\ full_log' = full_log
              /\ Len(uninstall_output_text') >= Len(uninstall_output_text)
              /\ SubSeq(uninstall_output_text', 1, Len(uninstall_output_text))
                    = uninstall_output_text]_vars

\* Everything a user can read in the logs and the failure reports: the entries of
\* the install log, of the uninstall log and of the recent lines of each report.
Written ==
    {full_log[i] : i \in DOMAIN full_log}
    \cup {uninstall_output_text[i] : i \in DOMAIN uninstall_output_text}
    \cup UNION {{report_text[r].recent_logs[i] : i \in DOMAIN report_text[r].recent_logs} :
                r \in Runs}

\* The values formatted into entry e include secret.
Mentions(e, secret) ==
    \/ ToString(e.arg) = ToString(secret)
    \/ \E i \in DOMAIN e.arg : ToString(e.arg[i]) = ToString(secret)

\* The command bodies the workflows hand to execute_ssh_command.
CommandBodies ==
    {<<"#!/bin/bash (install template)">>,
     <<"systemctl --user is-active dreampi-linkcable || ...">>,
     <<"#!/bin/bash (uninstall template)">>}

\* C30. Password does not reach the log: what the install log, the uninstall log
\* and the failure report hold does not depend on the configured password. No
\* entry written holds the password, no failure message is the password, and
\* the "SSH Command:" entry is the ssh command line alone: it starts with ssh,
\* ends with the placeholder '[COMMAND]' in place of the command body, and holds
\* neither the sshpass prefix nor the password nor a command body, while the
\* command line that is executed holds the password whenever sshpass is used.
C30_PasswordNotLogged ==
    /\ \A e \in Written :
          /\ ~Mentions(e, password_var)
          /\ \A p \in Passwords : ~Mentions(e, p)
          /\ \A body \in CommandBodies : ~Mentions(e, body)
          /\ e.text = "SSH Command:" =>
                /\ Len(e.arg) = 15
                /\ e.arg[1] = <<"ssh">>
                /\ e.arg[Len(e.arg)] = <<"'[COMMAND]'">>
                /\ \A i \in DOMAIN e.arg : e.arg[i] # <<"sshpass">>
    /\ \A r \in Runs :
          /\ ToString(report_text[r].msg) # ToString(password_var)
          /\ \A i \in DOMAIN launched[r] :
                LET argv == launched[r][i].argv
                IN  (argv # << >> /\ argv[1] = <<"sshpass">>) => argv[3] = password_var

C30_Witness ==
    \E r \in Runs :
        /\ password_var = <<"s", "3", "c">>
        /\ \E i \in DOMAIN launched[r] :
              /\ launched[r][i].argv # << >>
              /\ launched[r][i].argv[1] = <<"sshpass">>
              /\ launched[r][i].argv[3] = <<"s", "3", "c">>
        /\ \E e \in Written : e.by = r /\ e.text = "SSH Command:"
        /\ report_text[r].kind = "failure"
        /\ \E e \in {report_text[r].recent_logs[i] : i \in DOMAIN report_text[r].recent_logs} :
              e.text = "SSH Command:"

====
